---- MODULE Spec2Model ----
(***************************************************************************)
(* Model of agroservices.ipm.IPM: the weather-adapter parameter resolvers  *)
(* (weatheradapter_forecast_params, weatheradapter_observation_params,     *)
(* weatheradapter_params), the model-input composer (model_input) and the  *)
(* model runner (run_model).                                               *)
(*                                                                         *)
(* Python values are modelled as follows.                                  *)
(*  - a dict is a function from its keys (strings) to its values;          *)
(*  - a call's outcome is a record [ok, exc, msg, params]: either the      *)
(*    returned dict, or the raised exception's class and message;          *)
(*  - a timestamp string is a record [k, wall, off, aware, txt]: k = "iso" *)
(*    for an ISO-8601 text showing wall-clock hour `wall` and, when aware, *)
(*    UTC offset `off` (hours); k = "text" for any other text `txt`;       *)
(*  - a datetime is a record [wall, off, aware].                           *)
(* Time is counted in hours.                                               *)
(***************************************************************************)
EXTENDS Integers, Sequences, FiniteSets, TLC

VARIABLES
    rcall,   \* a resolver call: its function, source, keywords, clock and zone
    rres,    \* its outcome
    heap,    \* the dicts of the caller's model schema, by address
    model,   \* the caller's model descriptor
    icall,   \* the arguments of model_input
    skeleton,\* the document the generator produced in the last call
    ires,    \* the outcome of the last model_input call
    calls,   \* number of model_input calls made
    rmcall,  \* the model_input argument of run_model: a document or None
    log,     \* the calls run_model has made, in order
    rmres,   \* the outcome of the last run_model call
    runs     \* number of run_model calls made

vars ==
    <<rcall, rres, heap, model, icall, skeleton, ires, calls, rmcall, log, rmres,
      runs>>

resolveVars == <<rcall, rres>>

inputVars == <<heap, model, icall, skeleton, ires, calls>>

runVars == <<rmcall, log, rmres, runs>>

(***************************************************************************)
(* Python helpers                                                          *)
(***************************************************************************)

EmptyDict == [x \in {} |-> 0]

\* dict.update({k: v})
Update(d, k, v) == [x \in (DOMAIN d) \cup {k} |-> IF x = k THEN v ELSE d[x]]

\* dict.pop(k)
Pop(d, k) == [x \in (DOMAIN d) \ {k} |-> d[x]]

\* a returned value / a raised exception
Return(params) == [ok |-> TRUE, exc |-> "", msg |-> "", params |-> params]

Raise(exc, msg) == [ok |-> FALSE, exc |-> exc, msg |-> msg, params |-> EmptyDict]

\* ','.join(map(str, parameters))
RECURSIVE JoinCodes(_)
JoinCodes(codes) ==
    IF Len(codes) = 0 THEN ""
    ELSE IF Len(codes) = 1 THEN ToString(codes[1])
    ELSE ToString(codes[1]) \o "," \o JoinCodes(Tail(codes))

(***************************************************************************)
(* datetime                                                                *)
(***************************************************************************)

\* hours in datetime.timedelta(days=1)
Day == 24

IsoText(wall, off, aware) ==
    [k |-> "iso", wall |-> wall, off |-> off, aware |-> aware, txt |-> ""]

PlainText(txt) ==
    [k |-> "text", wall |-> 0, off |-> 0, aware |-> FALSE, txt |-> txt]

\* datetime.datetime.fromisoformat(s): defined on ISO texts only
IsIsoFormat(s) == s.k = "iso"

fromisoformat(s) == [wall |-> s.wall, off |-> s.off, aware |-> s.aware]

\* a slip: the day is not added
PlusOneDay_NoShift(dt) == dt

\* dt + datetime.timedelta(days=1): wall-clock arithmetic, tzinfo kept
PlusOneDay(dt) == [dt EXCEPT !.wall = dt.wall + Day]

\* dt.astimezone(): to the machine's zone (offset tz); a naive datetime is
\* taken to be local time already
astimezone(dt, tz) ==
    IF dt.aware
    THEN [wall |-> dt.wall - dt.off + tz, off |-> tz, aware |-> TRUE]
    ELSE [wall |-> dt.wall, off |-> tz, aware |-> TRUE]

\* dt.isoformat()
isoformat(dt) == IsoText(dt.wall, dt.off, dt.aware)

\* datetime.datetime.today(): naive local time at UTC instant now
today(now, tz) == [wall |-> now + tz, off |-> 0, aware |-> FALSE]

\* the UTC instant an aware ISO text denotes
Instant(s) == s.wall - s.off

\* Python None / a missing value
NoValue == [k |-> "none", wall |-> 0, off |-> 0, aware |-> FALSE, txt |-> ""]

(***************************************************************************)
(* Data source descriptors and caller overrides                            *)
(***************************************************************************)

\* a keyword argument, or its default when the caller leaves it out
Given(kw, name) == name \in DOMAIN kw

\* int(x) of a GeoJSON id: an int, or a str that may or may not be numeric
CanInt(x) == x.numeric

int(x) == x.n

\* interval: source['temporal']['intervals'][0] unless overridden
ResolveInterval(source, kw) ==
    IF ~Given(kw, "interval") THEN source.intervals[1] ELSE kw["interval"]

\* parameters: source['parameters']['common'] unless overridden, comma-joined
ResolveParameters(source, kw) ==
    JoinCodes(IF ~Given(kw, "parameters") THEN source.common ELSE kw["parameters"])

(***************************************************************************)
(* weatheradapter_forecast_params                                          *)
(***************************************************************************)

DefaultLatitude == 672828

DefaultLongitude == 143711

DefaultAltitude == 0

TimeWindowSources == {"dk.dmi.pointweather", "se.slu.lantmet"}

\* the names bound by the signature; every other keyword lands in **options
ForecastNamed == {"latitude", "longitude", "altitude", "interval", "parameters"}

ForecastOptions(kw) == [x \in (DOMAIN kw) \ ForecastNamed |-> kw[x]]

\* lines 207-218: the time window of the sources that require one
ForecastTimeWindow(params, options, now, tz) ==
    LET startText == PlainText("timeStart")
        endText == PlainText("timeEnd")
    IN  IF "timeStart" \in DOMAIN options /\ ~IsIsoFormat(startText)
        THEN Raise("ValueError", "Invalid isoformat string: 'timeStart'")
        ELSE
        LET start == IF "timeStart" \in DOMAIN options
                     THEN fromisoformat(startText)
                     ELSE today(now, tz)
            timeStart == isoformat(astimezone(start, tz))
        IN  IF "timeEnd" \in DOMAIN options /\ ~IsIsoFormat(endText)
            THEN Raise("ValueError", "Invalid isoformat string: 'timeEnd'")
            ELSE
            LET end == IF "timeEnd" \in DOMAIN options
                       THEN fromisoformat(endText)
                       ELSE PlusOneDay(start)
                timeEnd == isoformat(astimezone(end, tz))
            IN  Return(Update(Update(params, "timeStart", timeStart),
                              "timeEnd", timeEnd))

weatheradapter_forecast_params(source, kw, now, tz) ==
    LET options == ForecastOptions(kw)
        p0 == [latitude |-> IF Given(kw, "latitude") THEN kw["latitude"]
                            ELSE DefaultLatitude,
               longitude |-> IF Given(kw, "longitude") THEN kw["longitude"]
                             ELSE DefaultLongitude,
               altitude |-> IF Given(kw, "altitude") THEN kw["altitude"]
                            ELSE DefaultAltitude]
        p1 == Update(p0, "interval", ResolveInterval(source, kw))
        p2 == Update(p1, "parameters", ResolveParameters(source, kw))
        p3 == IF source.id = "fi.fmi.forecast.location"
              THEN Pop(p2, "altitude") ELSE p2
    IN  IF source.id \in TimeWindowSources
        THEN ForecastTimeWindow(p3, options, now, tz)
        ELSE Return(p3)

(***************************************************************************)
(* weatheradapter_observation_params                                       *)
(***************************************************************************)

FruitwebStation == 18150029

MetosStation == 732

\* lines 257-264: the time window; `start` is bound only when timeStart is
\* left out, and is read whenever timeEnd is left out
ObservationTimeWindow(source, kw, tz) ==
    IF ~Given(kw, "timeStart") /\ source.historic.k = "none"
    THEN Raise("KeyError", "historic")
    ELSE IF ~Given(kw, "timeStart") /\ ~IsIsoFormat(source.historic)
    THEN Raise("ValueError", "Invalid isoformat string")
    ELSE IF Given(kw, "timeStart") /\ ~Given(kw, "timeEnd")
    THEN Raise("UnboundLocalError", "start")
    ELSE
    LET start == PlusOneDay(fromisoformat(source.historic))
        timeStart == IF ~Given(kw, "timeStart")
                     THEN isoformat(astimezone(start, tz))
                     ELSE kw["timeStart"]
        timeEnd == IF ~Given(kw, "timeEnd")
                   THEN isoformat(astimezone(PlusOneDay(start), tz))
                   ELSE kw["timeEnd"]
    IN  Return([timeStart |-> timeStart, timeEnd |-> timeEnd])

\* a slip: properties.id is preferred to the feature's top-level id, and the
\* GeoJSON is read before the hard-coded stations
ObservationStation_PropertiesFirst(source, kw) ==
    IF Given(kw, "weatherStationId")
    THEN Return([weatherStationId |-> kw["weatherStationId"]])
    ELSE IF source.hasGeo /\ Len(source.features) > 0
            /\ source.features[1].hasPropId /\ CanInt(source.features[1].propId)
    THEN Return([weatherStationId |-> int(source.features[1].propId)])
    ELSE IF source.id = "info.fruitweb"
    THEN Return([weatherStationId |-> FruitwebStation])
    ELSE IF source.id = "net.ipmdecisions.metos"
    THEN Return([weatherStationId |-> MetosStation])
    ELSE IF source.hasGeo /\ Len(source.features) > 0
            /\ source.features[1].hasId /\ CanInt(source.features[1].id)
    THEN Return([weatherStationId |-> int(source.features[1].id)])
    ELSE Raise("KeyError", "id")

\* lines 266-277: the station id; the outcome's params hold weatherStationId
ObservationStation(source, kw) ==
    IF Given(kw, "weatherStationId")
    THEN Return([weatherStationId |-> kw["weatherStationId"]])
    ELSE IF source.id = "info.fruitweb"
    THEN Return([weatherStationId |-> FruitwebStation])
    ELSE IF source.id = "net.ipmdecisions.metos"
    THEN Return([weatherStationId |-> MetosStation])
    ELSE IF ~source.hasGeo
    THEN Raise("TypeError", "geoJSON")
    ELSE IF Len(source.features) = 0
    THEN Raise("IndexError", "features")
    ELSE
    LET f == source.features[1]
    IN  IF f.hasId
        THEN IF CanInt(f.id)
             THEN Return([weatherStationId |-> int(f.id)])
             ELSE Raise("ValueError", "invalid literal for int()")
        ELSE IF ~f.hasPropId
        THEN Raise("KeyError", "id")
        ELSE IF CanInt(f.propId)
        THEN Return([weatherStationId |-> int(f.propId)])
        ELSE Raise("ValueError", "invalid literal for int()")

\* a slip: the option is passed on for every source that is given one
weatheradapter_observation_params_AnySource(source, kw, tz) ==
    LET p1 == Update(EmptyDict, "interval", ResolveInterval(source, kw))
        p2 == Update(p1, "parameters", ResolveParameters(source, kw))
        window == ObservationTimeWindow(source, kw, tz)
        station == ObservationStation(source, kw)
    IN  IF ~window.ok THEN window
        ELSE IF ~station.ok THEN station
        ELSE
        LET p3 == Update(Update(p2, "timeStart", window.params.timeStart),
                         "timeEnd", window.params.timeEnd)
            p4 == Update(p3, "weatherStationId", station.params.weatherStationId)
        IN  IF source.id = "fi.fmi.observation.station" \/ Given(kw, "ignoreErrors")
            THEN Return(Update(p4, "ignoreErrors",
                               IF Given(kw, "ignoreErrors")
                               THEN kw["ignoreErrors"] ELSE TRUE))
            ELSE Return(p4)

weatheradapter_observation_params(source, kw, tz) ==
    LET p1 == Update(EmptyDict, "interval", ResolveInterval(source, kw))
        p2 == Update(p1, "parameters", ResolveParameters(source, kw))
        window == ObservationTimeWindow(source, kw, tz)
        station == ObservationStation(source, kw)
    IN  IF ~window.ok THEN window
        ELSE IF ~station.ok THEN station
        ELSE
        LET p3 == Update(Update(p2, "timeStart", window.params.timeStart),
                         "timeEnd", window.params.timeEnd)
            p4 == Update(p3, "weatherStationId", station.params.weatherStationId)
        IN  IF source.id = "fi.fmi.observation.station"
            THEN Return(Update(p4, "ignoreErrors",
                               IF Given(kw, "ignoreErrors")
                               THEN kw["ignoreErrors"] ELSE TRUE))
            ELSE Return(p4)

(***************************************************************************)
(* weatheradapter_params                                                   *)
(***************************************************************************)

\* a slip: every access type but 'stations' is served as a location source
weatheradapter_params_NoReject(source, kw, now, tz) ==
    IF source.access_type = "stations"
    THEN weatheradapter_observation_params(source, kw, tz)
    ELSE weatheradapter_forecast_params(source, kw, now, tz)

weatheradapter_params(source, kw, now, tz) ==
    IF source.access_type = "stations"
    THEN weatheradapter_observation_params(source, kw, tz)
    ELSE IF source.access_type = "location"
    THEN weatheradapter_forecast_params(source, kw, now, tz)
    ELSE Raise("ValueError", "Unknown access type : " \o source.access_type)

(***************************************************************************)
(* JSON values and schema dicts of model_input                             *)
(*  - a JSON value is a one-field record naming its kind: a number, a      *)
(*    string, an opaque document or a value faked by the generator; a      *)
(*    WeatherData document is [weatherParameters, interval]; None is None; *)
(*  - the schema's dicts live in `heap`, a function from addresses to      *)
(*    dicts whose values are references to other dicts, lists of keys,     *)
(*    property schemas or opaque sub-trees, so that two names for one dict *)
(*    see each other's writes.                                             *)
(***************************************************************************)

Num(n) == [num |-> n]

Str(s) == [str |-> s]

Doc(s) == [doc |-> s]

Fake(s) == [fake |-> s]

WeatherData(codes, interval) == [weatherParameters |-> codes, interval |-> interval]

None == [none |-> TRUE]

\* a property schema with and without a 'default'
PropertySchema(type, pattern) == [type |-> type, pattern |-> pattern]

PropertySchemaWithDefault(type, pattern, default) ==
    [type |-> type, pattern |-> pattern, default |-> default]

\* a property schema that only refers to a schema defined elsewhere
SchemaRef(name) == [schemaRef |-> name]

Ref(a) == [ref |-> a]

List(keys) == [keys |-> keys]

Tree(name) == [tree |-> name]

\* lines 847-848 and 851-852: the string schema put in place of an
\* externally supplied property
PlaceholderSchema(token) ==
    PropertySchemaWithDefault("string", "^{" \o token \o "}$",
                              Str("{" \o token \o "}"))

fieldobs == <<"fieldObservations", "fieldObservationQuantifications">>

\* dict.copy(): a new dict at address `to` with the same keys and the same
\* values, references included
ShallowCopy(h, from, to) == Update(h, to, h[from])

\* d[k1][k2] = v for the dict at address a
Store(h, a, k, v) == Update(h, a, Update(h[a], k, v))

(***************************************************************************)
(* JSF(schema).generate(): the skeleton. Every required property is        *)
(* generated, an optional one may or may not be (keep: the optional keys   *)
(* this run keeps); a string schema with a pattern yields the text the     *)
(* pattern matches, any other schema a fake value.                         *)
(***************************************************************************)

Matching(pattern) ==
    CASE pattern = "^{WEATHER_DATA}$" -> "{WEATHER_DATA}"
      [] pattern = "^{fieldObservations}$" -> "{fieldObservations}"
      [] pattern = "^{fieldObservationQuantifications}$" ->
             "{fieldObservationQuantifications}"

GenerateLeaf(name, sch) ==
    IF "pattern" \in DOMAIN sch /\ sch.type = "string" /\ sch.pattern # ""
    THEN Str(Matching(sch.pattern))
    ELSE Fake(name)

RequiredOf(h, a) ==
    IF "required" \in DOMAIN h[a] THEN h[a]["required"].keys ELSE {}

GeneratedKeys(h, a, keep) ==
    LET props == h[h[a]["properties"].ref]
    IN  (RequiredOf(h, a) \cup keep) \cap DOMAIN props

GenerateObject(h, a, keep) ==
    LET props == h[h[a]["properties"].ref]
    IN  [p \in GeneratedKeys(h, a, keep) |-> GenerateLeaf(p, props[p])]

Generate(h, a, keep) ==
    LET props == h[h[a]["properties"].ref]
    IN  [p \in GeneratedKeys(h, a, keep) |->
            IF "ref" \in DOMAIN props[p]
            THEN GenerateObject(h, props[p].ref, keep)
            ELSE GenerateLeaf(p, props[p])]

(***************************************************************************)
(* model_input                                                             *)
(***************************************************************************)

\* lines 849-852: a field-observation property the schema declares gets the
\* placeholder schema, written into the dict config_params['properties']
ReplaceFieldObs(h, cpp, p) ==
    IF p \in DOMAIN h[cpp] THEN Store(h, cpp, p, PlaceholderSchema(p))
    ELSE h

\* a slip: the schema default is tried before the caller's override
ApplyParameters_DefaultFirst(input, cppDict, parameters) ==
    IF "configParameters" \in DOMAIN input
    THEN Update(input, "configParameters",
                [p \in DOMAIN input["configParameters"] |->
                    IF "default" \in DOMAIN cppDict[p] THEN cppDict[p]["default"]
                    ELSE IF p \in DOMAIN parameters THEN parameters[p]
                    ELSE input["configParameters"][p]])
    ELSE input

\* lines 861-870: override, else schema default, else the generated value
ApplyParameters(input, cppDict, parameters) ==
    IF "configParameters" \in DOMAIN input
    THEN Update(input, "configParameters",
                [p \in DOMAIN input["configParameters"] |->
                    IF p \in DOMAIN parameters THEN parameters[p]
                    ELSE IF "default" \in DOMAIN cppDict[p] THEN cppDict[p]["default"]
                    ELSE input["configParameters"][p]])
    ELSE input

\* lines 873-877: the codes and the interval the model requires
RequiredCodes(m) ==
    IF m.weather_parameters.isNone THEN {}
    ELSE {m.weather_parameters.list[i].parameter_code :
             i \in 1..Len(m.weather_parameters.list)}

RequiredInterval(m) ==
    IF m.weather_parameters.isNone THEN None
    ELSE Num(m.weather_parameters.list[1].interval)

\* a slip: the interval of the supplied data is not compared
CheckAndInject_NoIntervalCheck(input, m, weather_data) ==
    IF ~(RequiredCodes(m) \subseteq weather_data.weatherParameters)
    THEN Raise("AssertionError", "WeatherData parameter are missing")
    ELSE Return(Update(input, "weatherData", weather_data))

\* lines 881-883 and 886-888: the two asserts, then the injection
CheckAndInject(input, m, weather_data) ==
    IF ~(RequiredCodes(m) \subseteq weather_data.weatherParameters)
    THEN Raise("AssertionError", "WeatherData parameter are missing")
    ELSE IF RequiredInterval(m) # Num(weather_data.interval)
    THEN Raise("AssertionError",
               "weatherdata interval is not fullfilling model requirements")
    ELSE Return(Update(input, "weatherData", weather_data))

\* a slip: data that passes the checks is not written over the placeholder
InjectWeather_KeepPlaceholder(input, propsDict, m, weather_data) ==
    IF "weatherData" \in DOMAIN input
    THEN IF weather_data = None
         THEN Raise("ValueError", m.id \o " requires WeatherData as input")
         ELSE IF CheckAndInject(input, m, weather_data).ok THEN Return(input)
         ELSE CheckAndInject(input, m, weather_data)
    ELSE IF weather_data # None /\ "weatherData" \in DOMAIN propsDict
    THEN CheckAndInject(input, m, weather_data)
    ELSE Return(input)

\* a slip: supplied data is checked and injected whatever the schema declares
InjectWeather_AlwaysValidate(input, propsDict, m, weather_data) ==
    IF "weatherData" \in DOMAIN input
    THEN IF weather_data = None
         THEN Raise("ValueError", m.id \o " requires WeatherData as input")
         ELSE CheckAndInject(input, m, weather_data)
    ELSE IF weather_data # None
    THEN CheckAndInject(input, m, weather_data)
    ELSE Return(input)

\* lines 878-888
InjectWeather(input, propsDict, m, weather_data) ==
    IF "weatherData" \in DOMAIN input
    THEN IF weather_data = None
         THEN Raise("ValueError", m.id \o " requires WeatherData as input")
         ELSE CheckAndInject(input, m, weather_data)
    ELSE IF weather_data # None /\ "weatherData" \in DOMAIN propsDict
    THEN CheckAndInject(input, m, weather_data)
    ELSE Return(input)

\* a slip: a property of the skeleton without a supplied value is passed over
InjectFieldObs_NoRequire(out, cppDict, m, p, pvalue) ==
    IF ~out.ok THEN out
    ELSE IF "configParameters" \notin DOMAIN out.params
    THEN Raise("KeyError", "configParameters")
    ELSE IF pvalue # None /\ p \in DOMAIN cppDict
    THEN Return(Update(out.params, "configParameters",
                       Update(out.params["configParameters"], p, pvalue)))
    ELSE out

\* lines 891-897: one turn of the loop over fieldobs
InjectFieldObs(out, cppDict, m, p, pvalue) ==
    IF ~out.ok THEN out
    ELSE IF "configParameters" \notin DOMAIN out.params
    THEN Raise("KeyError", "configParameters")
    ELSE IF p \in DOMAIN out.params["configParameters"]
    THEN IF pvalue = None
         THEN Raise("ValueError", m.id \o " requires " \o p \o " as input")
         ELSE Return(Update(out.params, "configParameters",
                            Update(out.params["configParameters"], p, pvalue)))
    ELSE IF pvalue # None /\ p \in DOMAIN cppDict
    THEN Return(Update(out.params, "configParameters",
                       Update(out.params["configParameters"], p, pvalue)))
    ELSE out

\* lines 846-855: the placeholders are written through the copy's
\* 'properties', then 'definitions' is popped from the copy
PrepareSchema(h1, props, cpp) ==
    LET h2 == IF "weatherData" \in DOMAIN h1[props]
              THEN Store(h1, props, "weatherData",
                         PlaceholderSchema("WEATHER_DATA"))
              ELSE h1
        h3 == ReplaceFieldObs(ReplaceFieldObs(h2, cpp, fieldobs[1]),
                              cpp, fieldobs[2])
    IN  IF "definitions" \in DOMAIN h3["copy"]
        THEN Update(h3, "copy", Pop(h3["copy"], "definitions"))
        ELSE h3

\* lines 872-898: the weather data, then the two field-observation documents
InjectData(input, propsDict, cppDict, m, args) ==
    IF ~m.weather_parameters.isNone /\ Len(m.weather_parameters.list) = 0
    THEN Raise("IndexError", "weather_parameters")
    ELSE InjectFieldObs(
             InjectFieldObs(InjectWeather(input, propsDict, m, args.weather_data),
                            cppDict, m, fieldobs[1], args.field_observations),
             cppDict, m, fieldobs[2], args.field_observation_quantifications)

\* lines 860-898, on the prepared schema h and the generated document
Compose(h, props, cpp, generated, m, args) ==
    [heap |-> h, skeleton |-> generated,
     out |-> InjectData(ApplyParameters(generated, h[cpp],
                                        IF args.parameters.isNone THEN EmptyDict
                                        ELSE args.parameters.dict),
                        h[props], h[cpp], m, args)]

\* lines 857-898: generate, then compose
ComposeGenerated(h, props, cpp, m, args, keep) ==
    Compose(h, props, cpp, Generate(h, "copy", keep), m, args)

\* lines 842-898, on the heap h1 that holds the copy
ComposeOnCopy(h1, props, m, args, keep) ==
    IF "configParameters" \notin DOMAIN h1[props]
    THEN [heap |-> h1, skeleton |-> EmptyDict,
          out |-> Raise("KeyError", "configParameters")]
    ELSE LET cpp == h1[h1[props]["configParameters"].ref]["properties"].ref
         IN  ComposeGenerated(PrepareSchema(h1, props, cpp), props, cpp, m,
                              args, keep)

\* the whole of model_input: the heap it leaves, the document generated at
\* line 858 and the outcome. args holds parameters, weather_data,
\* field_observations and field_observation_quantifications; keep is the
\* generator's choice of optional keys.
model_input(h0, m, args, keep) ==
    ComposeOnCopy(ShallowCopy(h0, m.input_schema, "copy"),
                  h0[m.input_schema]["properties"].ref, m, args, keep)

(***************************************************************************)
(* run_model                                                               *)
(***************************************************************************)

\* json.dumps: the text of a document
dumps(doc) == [json |-> doc]

\* the calls run_model makes, as the log records them
ModelInputCall(out) == [op |-> "model_input", out |-> out]

HttpPostCall(endpoint, data, response) ==
    [op |-> "http_post", endpoint |-> endpoint, data |-> data, frmt |-> "json",
     headers |-> "Content-Type: application/json", response |-> response]

\* REST.http_post: one outbound POST, whose answer it hands back
http_post(log0, endpoint, data, response) ==
    [log |-> Append(log0, HttpPostCall(endpoint, data, response)),
     res |-> response]

\* what run_model leaves when model_input is not called
NotComposed(h0) == [heap |-> h0, skeleton |-> EmptyDict, out |-> Raise("none", "")]

\* a slip: an answer that reports an error makes the document be sent again
Post_Retry(composed, m, doc, response, log0) ==
    LET sent == http_post(log0, m.endpoint, dumps(doc), response)
        again == http_post(sent.log, m.endpoint, dumps(doc), response)
    IN  [composed |-> composed,
         log |-> IF "error" \in DOMAIN response THEN again.log ELSE sent.log,
         res |-> [ok |-> TRUE, exc |-> "", msg |-> "", value |-> sent.res]]

\* lines 937-946: the POST of the document and the answer returned
Post(composed, m, doc, response, log0) ==
    LET sent == http_post(log0, m.endpoint, dumps(doc), response)
    IN  [composed |-> composed, log |-> sent.log,
         res |-> [ok |-> TRUE, exc |-> "", msg |-> "", value |-> sent.res]]

\* lines 931-935 when model_input is None: the document is composed; an
\* exception of model_input leaves run_model before the POST
ComposeAndPost(r, m, response, log0) ==
    IF r.out.ok
    THEN Post(r, m, r.out.params, response, Append(log0, ModelInputCall(r.out)))
    ELSE [composed |-> r, log |-> Append(log0, ModelInputCall(r.out)),
          res |-> [ok |-> FALSE, exc |-> r.out.exc, msg |-> r.out.msg,
                   value |-> None]]

\* the whole of run_model; ready is its model_input argument, response
\* the answer of the remote end
run_model(h0, m, args, ready, keep, response, log0) ==
    IF ready = None
    THEN ComposeAndPost(model_input(h0, m, args, keep), m, response, log0)
    ELSE Post(NotComposed(h0), m, ready, response, log0)

(***************************************************************************)
(* The resolver's inputs: descriptors, overrides, the clock and the zone   *)
(***************************************************************************)

SourceIds ==
    {"info.fruitweb", "net.ipmdecisions.metos", "fi.fmi.observation.station",
     "fi.fmi.forecast.location", "dk.dmi.pointweather", "se.slu.lantmet",
     "no.nibio.lmt"}

AccessTypes == {"stations", "location", "grid"}

\* temporal.intervals and parameters.common of a descriptor
Catalogues ==
    {[intervals |-> <<3600>>, common |-> <<1002>>],
     [intervals |-> <<86400, 3600>>, common |-> <<1002, 3002, 2001>>]}

\* temporal.historic.start: with an offset, without one, missing
HistoricStarts == {IsoText(48, 1, TRUE), IsoText(72, 0, FALSE), NoValue}

IntId(n) == [n |-> n, numeric |-> TRUE, str |-> FALSE]

StrId(n) == [n |-> n, numeric |-> TRUE, str |-> TRUE]

BadId == [n |-> 0, numeric |-> FALSE, str |-> TRUE]

Feature(hasId, id, hasPropId, propId) ==
    [hasId |-> hasId, id |-> id, hasPropId |-> hasPropId, propId |-> propId]

\* spatial.geoJSON: missing, without features, or with a first feature
GeoJSONs ==
    {[hasGeo |-> FALSE, features |-> <<>>],
     [hasGeo |-> TRUE, features |-> <<>>],
     [hasGeo |-> TRUE, features |-> <<Feature(TRUE, IntId(41), FALSE, BadId)>>],
     [hasGeo |-> TRUE, features |-> <<Feature(TRUE, StrId(42), TRUE, IntId(43)),
                                     Feature(TRUE, IntId(44), FALSE, BadId)>>],
     [hasGeo |-> TRUE, features |-> <<Feature(FALSE, BadId, TRUE, StrId(45))>>],
     [hasGeo |-> TRUE, features |-> <<Feature(TRUE, BadId, TRUE, IntId(46))>>],
     [hasGeo |-> TRUE, features |-> <<Feature(FALSE, BadId, FALSE, BadId)>>]}

Sources ==
    {[id |-> i, access_type |-> a, intervals |-> c.intervals, common |-> c.common,
      historic |-> h, hasGeo |-> g.hasGeo, features |-> g.features] :
        i \in SourceIds, a \in AccessTypes, c \in Catalogues,
        h \in HistoricStarts, g \in GeoJSONs}

OverrideKeys ==
    {"interval", "parameters", "timeStart", "timeEnd", "weatherStationId",
     "ignoreErrors", "altitude"}

OverrideValue(k, flag) ==
    CASE k = "interval" -> 600
      [] k = "parameters" -> <<4002, 1002>>
      [] k = "timeStart" -> IsoText(500, 3, TRUE)
      [] k = "timeEnd" -> IsoText(560, 3, TRUE)
      [] k = "weatherStationId" -> 99
      [] k = "ignoreErrors" -> flag
      [] k = "altitude" -> 120

Kwargs == {[k \in K |-> OverrideValue(k, flag)] : K \in SUBSET OverrideKeys,
                                                   flag \in BOOLEAN}

\* the machine's UTC offset and the clock's reading (UTC)
Environments == {[tz |-> 2, now |-> 1000], [tz |-> -5, now |-> 2000]}

(***************************************************************************)
(* The composer's inputs: model descriptors and call arguments             *)
(***************************************************************************)

Presence == {"absent", "optional", "required"}

Declared(shape) == {p \in DOMAIN shape : shape[p] # "absent"}

Required(shape) == {p \in DOMAIN shape : shape[p] = "required"}

\* the schema's property definitions as the platform serves them
OriginalSchema(p) ==
    CASE p = "weatherData" -> SchemaRef("weatherdata")
      [] p = "fieldObservations" -> SchemaRef("fieldobservation")
      [] p = "fieldObservationQuantifications" -> PropertySchema("array", "")
      [] p = "timeZone" ->
             PropertySchemaWithDefault("string", "", Str("Europe/Oslo"))
      [] p = "timeStart" -> PropertySchema("string", "")

\* the dicts of model['execution']['input_schema']: top and cp say which
\* properties the schema and its configParameters declare and require
SchemaHeap(top, cp, withDefinitions) ==
    LET schema ==
            LET base == [type |-> Tree("object"),
                         properties |-> Ref("properties"),
                         required |-> List(Required(top))]
            IN  IF withDefinitions
                THEN Update(base, "definitions", Tree("definitions"))
                ELSE base
        properties ==
            [p \in Declared(top) |->
                IF p = "configParameters" THEN Ref("configParameters")
                ELSE OriginalSchema(p)]
        configParameters ==
            [type |-> Tree("object"), properties |-> Ref("cpProperties"),
             required |-> List(Required(cp))]
        cpProperties == [p \in Declared(cp) |-> OriginalSchema(p)]
    IN  IF "configParameters" \in Declared(top)
        THEN [a \in {"schema", "properties", "configParameters", "cpProperties"} |->
                CASE a = "schema" -> schema
                  [] a = "properties" -> properties
                  [] a = "configParameters" -> configParameters
                  [] a = "cpProperties" -> cpProperties]
        ELSE [a \in {"schema", "properties"} |->
                IF a = "schema" THEN schema ELSE properties]

TopShapes == [{"configParameters", "weatherData"} -> Presence]

ConfigShapes ==
    {[timeZone |-> "optional", timeStart |-> "required",
      fieldObservations |-> f, fieldObservationQuantifications |-> q] :
        f \in Presence, q \in {"absent", "optional"}}

SchemaHeaps ==
    {SchemaHeap(top, cp, d) : top \in TopShapes, cp \in ConfigShapes,
                              d \in BOOLEAN}

WeatherParameter(code, interval) ==
    [parameter_code |-> code, interval |-> interval]

\* model['input']['weather_parameters']: null, empty, or a list
WeatherParameterLists ==
    {[isNone |-> TRUE, list |-> <<>>],
     [isNone |-> FALSE, list |-> <<>>],
     [isNone |-> FALSE, list |-> <<WeatherParameter(1002, 3600),
                                   WeatherParameter(3002, 3600)>>]}

Models ==
    {[id |-> "PSILARTEMP", endpoint |-> "https://platform/PSILARTEMP/run",
      input_schema |-> "schema", weather_parameters |-> wp] :
        wp \in WeatherParameterLists}

\* parameters: None or a dict of overrides
ParameterDicts ==
    {[isNone |-> TRUE, dict |-> EmptyDict],
     [isNone |-> FALSE, dict |-> [timeZone |-> Str("UTC"),
                                  timeStart |-> Str("2020-03-01")]],
     [isNone |-> FALSE, dict |-> [timeZone |-> Str("UTC"),
                                  fieldObservations |-> Doc("override"),
                                  cropCode |-> Str("DAUCS")]]}

WeatherDatas ==
    {None, WeatherData({1002, 3002, 2001}, 3600), WeatherData({1002}, 3600),
     WeatherData({1002, 3002}, 7200)}

FieldObservations == {None, Doc("observations")}

FieldObservationQuantifications == {None, Doc("quantifications")}

\* the properties the generator is free to leave out: those declared by
\* the schema or by its configParameters and not listed as required
OptionalProperties(h, a) ==
    LET props == h[h[a]["properties"].ref]
        top == (DOMAIN props) \ RequiredOf(h, a)
    IN  IF "configParameters" \in DOMAIN props
        THEN LET cp == props["configParameters"].ref
             IN  top \cup ((DOMAIN h[h[cp]["properties"].ref]) \ RequiredOf(h, cp))
        ELSE top

\* the generator's choices: a set of optional properties of the schema
\* and, when configParameters is generated, of its optional properties
GeneratorChoices(h, a) ==
    LET props == h[h[a]["properties"].ref]
        top == (DOMAIN props) \ RequiredOf(h, a)
    IN  {k \in SUBSET OptionalProperties(h, a) :
            \/ k \subseteq top
            \/ "configParameters" \in k \cup RequiredOf(h, a)}

\* calls of model_input made on one model descriptor
MaxCalls == 2

NoModelCall ==
    [parameters |-> [isNone |-> TRUE, dict |-> EmptyDict], weather_data |-> None,
     field_observations |-> None, field_observation_quantifications |-> None]

\* the model_input argument of run_model: None, or a ready-made document
ReadyMades ==
    {None, EmptyDict,
     [configParameters |-> [timeZone |-> Str("UTC"), timeStart |-> Str("2020-03-01")]]}

\* the schemas run_model is called on: those served with 'definitions'
RunSchemaHeaps == {h \in SchemaHeaps : "definitions" \in DOMAIN h["schema"]}

\* the parameters passed to run_model: None or overrides
RunParameterDicts ==
    {pd \in ParameterDicts : pd.isNone \/ "timeStart" \in DOMAIN pd.dict}

\* the answers of the remote end
Responses == {[result |-> "locationResult"], [error |-> "input rejected"]}

\* calls of run_model made on one model descriptor
MaxRuns == 2

\* the values the variables of the part that is not exercised keep
IdleCall ==
    [fn |-> "idle", source |-> CHOOSE s \in Sources : TRUE, kw |-> EmptyDict,
     now |-> 0, tz |-> 0]

IdleHeap == CHOOSE h \in SchemaHeaps : TRUE

IdleModel == CHOOSE m \in Models : TRUE

IdleResolve ==
    /\ rcall = IdleCall
    /\ rres = Raise("none", "")

IdleInput ==
    /\ heap = IdleHeap
    /\ model = IdleModel
    /\ icall = NoModelCall
    /\ skeleton = EmptyDict
    /\ ires = Raise("none", "")
    /\ calls = MaxCalls

IdleRun ==
    /\ rmcall = None
    /\ log = <<>>
    /\ rmres = Raise("none", "")
    /\ runs = MaxRuns

\* a resolver call is prepared (fn = "none"), then made once
InitResolve ==
    /\ \E s \in Sources, kw \in Kwargs, e \in Environments :
          rcall = [fn |-> "none", source |-> s, kw |-> kw,
                   now |-> e.now, tz |-> e.tz]
    /\ rres = Raise("none", "")
    /\ IdleInput
    /\ IdleRun

\* a model descriptor as fetched, and the arguments the caller will pass
InitInput ==
    /\ heap \in SchemaHeaps
    /\ model \in Models
    /\ icall \in [parameters : ParameterDicts, weather_data : WeatherDatas,
                  field_observations : FieldObservations,
                  field_observation_quantifications :
                      FieldObservationQuantifications]
    /\ skeleton = EmptyDict
    /\ ires = Raise("none", "")
    /\ calls = 0
    /\ IdleResolve
    /\ IdleRun

\* a model descriptor as fetched, and the arguments the caller will pass to
\* run_model
InitRun ==
    /\ heap \in RunSchemaHeaps
    /\ model \in Models
    /\ icall \in [parameters : RunParameterDicts, weather_data : WeatherDatas,
                  field_observations : FieldObservations,
                  field_observation_quantifications :
                      FieldObservationQuantifications]
    /\ rmcall \in ReadyMades
    /\ skeleton = EmptyDict
    /\ ires = Raise("none", "")
    /\ calls = 0
    /\ log = <<>>
    /\ rmres = Raise("none", "")
    /\ runs = 0
    /\ IdleResolve

CallForecast ==
    /\ rcall.fn = "none"
    /\ rcall' = [rcall EXCEPT !.fn = "forecast"]
    /\ rres' = weatheradapter_forecast_params(rcall.source, rcall.kw,
                                              rcall.now, rcall.tz)
    /\ UNCHANGED <<inputVars, runVars>>

CallObservation ==
    /\ rcall.fn = "none"
    /\ rcall' = [rcall EXCEPT !.fn = "observation"]
    /\ rres' = weatheradapter_observation_params(rcall.source, rcall.kw, rcall.tz)
    /\ UNCHANGED <<inputVars, runVars>>

CallParams ==
    /\ rcall.fn = "none"
    /\ rcall' = [rcall EXCEPT !.fn = "params"]
    /\ rres' = weatheradapter_params(rcall.source, rcall.kw, rcall.now, rcall.tz)
    /\ UNCHANGED <<inputVars, runVars>>

\* one call of model_input on the caller's model; the working copy dies
\* with the call
ModelInput ==
    /\ calls < MaxCalls
    /\ \E keep \in GeneratorChoices(heap, model.input_schema) :
          \E r \in {model_input(heap, model, icall, keep)} :
              /\ heap' = Pop(r.heap, "copy")
              /\ skeleton' = r.skeleton
              /\ ires' = r.out
    /\ calls' = calls + 1
    /\ UNCHANGED <<model, icall, resolveVars, runVars>>

\* one call of run_model; when it composes, that is a call of model_input
RunModel ==
    /\ runs < MaxRuns
    /\ \E keep \in GeneratorChoices(heap, model.input_schema), resp \in Responses :
          \E r \in {run_model(heap, model, icall, rmcall, keep, resp, log)} :
              /\ heap' = Pop(r.composed.heap, "copy")
              /\ skeleton' = IF rmcall = None THEN r.composed.skeleton ELSE skeleton
              /\ ires' = IF rmcall = None THEN r.composed.out ELSE ires
              /\ log' = r.log
              /\ rmres' = r.res
    /\ calls' = IF rmcall = None THEN calls + 1 ELSE calls
    /\ runs' = runs + 1
    /\ UNCHANGED <<model, icall, rmcall, resolveVars>>

NextResolve == CallForecast \/ CallObservation \/ CallParams

NextInput == ModelInput

NextRun == RunModel

Next == NextResolve \/ NextInput \/ NextRun

SpecResolve == InitResolve /\ [][NextResolve]_vars

SpecInput == InitInput /\ [][NextInput]_vars

SpecRun == InitRun /\ [][NextRun]_vars

Init == InitResolve \/ InitInput \/ InitRun

Spec == Init /\ [][Next]_vars

(***************************************************************************)
(* Properties of the resolvers                                             *)
(***************************************************************************)

Has(d, keys) == keys \subseteq DOMAIN d

\* a descriptor with a readable historic start and a usable first feature
WellFormedStation(source) ==
    /\ IsIsoFormat(source.historic)
    /\ source.hasGeo
    /\ Len(source.features) > 0
    /\ source.features[1].hasId
    /\ CanInt(source.features[1].id)

\* C1: for every stations-type descriptor and every combination of supplied
\* or omitted overrides, weatheradapter_observation_params returns a dict
\* holding interval, parameters, timeStart, timeEnd and weatherStationId
\* (stated here for well-formed descriptors only, which the code still fails).
C1_ObservationHasFiveKeys ==
    (/\ rcall.fn = "observation"
     /\ rcall.source.access_type = "stations"
     /\ WellFormedStation(rcall.source))
    => /\ rres.ok
       /\ Has(rres.params, {"interval", "parameters", "timeStart", "timeEnd",
                            "weatherStationId"})

\* C2: for every location-type descriptor and any overrides,
\* weatheradapter_forecast_params returns a dict that holds latitude,
\* longitude, interval and parameters, holds altitude iff the source is not
\* fi.fmi.forecast.location, and holds timeStart and timeEnd iff the source
\* is dk.dmi.pointweather or se.slu.lantmet.
C2_ForecastKeys ==
    (rcall.fn = "forecast" /\ rcall.source.access_type = "location")
    => /\ rres.ok
       /\ Has(rres.params, {"latitude", "longitude", "interval", "parameters"})
       /\ ("altitude" \in DOMAIN rres.params
            <=> rcall.source.id # "fi.fmi.forecast.location")
       /\ (Has(rres.params, {"timeStart", "timeEnd"})
            <=> rcall.source.id \in {"dk.dmi.pointweather", "se.slu.lantmet"})

\* C3: weatheradapter_params returns exactly the observation resolver's
\* outcome for access_type 'stations', exactly the forecast resolver's for
\* 'location', and for any other access_type raises an error whose message
\* names the value, returning no dict.
C3_Dispatch ==
    rcall.fn = "params"
    => /\ rcall.source.access_type = "stations"
          => rres = weatheradapter_observation_params(rcall.source, rcall.kw,
                                                      rcall.tz)
       /\ rcall.source.access_type = "location"
          => rres = weatheradapter_forecast_params(rcall.source, rcall.kw,
                                                   rcall.now, rcall.tz)
       /\ rcall.source.access_type \notin {"stations", "location"}
          => /\ ~rres.ok
             /\ rres.exc = "ValueError"
             /\ rres.msg = "Unknown access type : " \o rcall.source.access_type
             /\ rres.params = EmptyDict

C3_Witness ==
    /\ rcall.fn = "params"
    /\ rcall.source.access_type = "grid"
    /\ ~rres.ok
    /\ rres.msg = "Unknown access type : grid"

\* C4: with no overrides the observation resolver yields interval = the first
\* entry of temporal.intervals, parameters = the comma-joined common codes,
\* timeStart = the historic start plus one day and timeEnd = timeStart plus
\* one day, both with the machine's UTC offset; a supplied interval or
\* parameters override replaces the default in both resolvers.
HistoricInstant(source, tz) ==
    IF source.historic.aware THEN source.historic.wall - source.historic.off
    ELSE source.historic.wall - tz

ExpectedJoin(codes) ==
    CASE codes = <<1002>> -> "1002"
      [] codes = <<1002, 3002, 2001>> -> "1002,3002,2001"
      [] codes = <<4002, 1002>> -> "4002,1002"

C5_StationPriority ==
    rcall.fn = "observation"
    => LET kw == rcall.kw
           src == rcall.source
           windowOk == \/ Has(kw, {"timeStart", "timeEnd"})
                       \/ ("timeStart" \notin DOMAIN kw /\ IsIsoFormat(src.historic))
           sid == rres.params["weatherStationId"]
       IN  /\ "weatherStationId" \in DOMAIN kw
              => (windowOk => rres.ok) /\ (rres.ok => sid = kw["weatherStationId"])
           /\ ("weatherStationId" \notin DOMAIN kw /\ src.id = "info.fruitweb")
              => (windowOk => rres.ok) /\ (rres.ok => sid = 18150029)
           /\ ("weatherStationId" \notin DOMAIN kw /\ src.id = "net.ipmdecisions.metos")
              => (windowOk => rres.ok) /\ (rres.ok => sid = 732)
           /\ (/\ "weatherStationId" \notin DOMAIN kw
               /\ src.id \notin {"info.fruitweb", "net.ipmdecisions.metos"})
              => /\ rres.ok => src.hasGeo /\ Len(src.features) > 0
                 /\ (src.hasGeo /\ Len(src.features) > 0)
                    => LET f == src.features[1]
                       IN  /\ f.hasId => (rres.ok => f.id.numeric /\ sid = f.id.n)
                           /\ (f.hasId /\ ~f.id.numeric) => ~rres.ok
                           /\ ~f.hasId
                              => (rres.ok => /\ f.hasPropId
                                             /\ f.propId.numeric
                                             /\ sid = f.propId.n)

C5_Witness ==
    /\ rcall.fn = "observation"
    /\ "weatherStationId" \notin DOMAIN rcall.kw
    /\ rcall.source.id = "no.nibio.lmt"
    /\ rres.ok
    /\ Len(rcall.source.features) = 2
    /\ rcall.source.features[1].hasPropId
    /\ rres.params["weatherStationId"] = 42

\* C6: for dk.dmi.pointweather and se.slu.lantmet the forecast resolver
\* returns timeStart and timeEnd on every call: the supplied instants when
\* the caller gives timeStart and/or timeEnd, else the current time and the
\* current time plus one day.
C6_ForecastWindow ==
    (rcall.fn = "forecast"
     /\ rcall.source.id \in {"dk.dmi.pointweather", "se.slu.lantmet"})
    => /\ rres.ok
       /\ Has(rres.params, {"timeStart", "timeEnd"})
       /\ Instant(rres.params["timeStart"]) =
            IF "timeStart" \in DOMAIN rcall.kw
            THEN Instant(rcall.kw["timeStart"]) ELSE rcall.now
       /\ Instant(rres.params["timeEnd"]) =
            IF "timeEnd" \in DOMAIN rcall.kw
            THEN Instant(rcall.kw["timeEnd"])
            ELSE Instant(rres.params["timeStart"]) + 24

\* the part of C6 the code does meet: the defaulted window
C6_DefaultWindowOnly ==
    (/\ rcall.fn = "forecast"
     /\ rcall.source.id \in {"dk.dmi.pointweather", "se.slu.lantmet"}
     /\ "timeStart" \notin DOMAIN rcall.kw
     /\ "timeEnd" \notin DOMAIN rcall.kw)
    => /\ rres.ok
       /\ Instant(rres.params["timeStart"]) = rcall.now
       /\ Instant(rres.params["timeEnd"]) = rcall.now + 24

\* the part of C2 the code does meet: the keys of every returned dict
C2_KeysWhenReturned ==
    (rcall.fn = "forecast" /\ rres.ok)
    => /\ Has(rres.params, {"latitude", "longitude", "interval", "parameters"})
       /\ ("altitude" \in DOMAIN rres.params
            <=> rcall.source.id # "fi.fmi.forecast.location")
       /\ (Has(rres.params, {"timeStart", "timeEnd"})
            <=> rcall.source.id \in {"dk.dmi.pointweather", "se.slu.lantmet"})

(***************************************************************************)
(* Properties of model_input                                               *)
(***************************************************************************)

Called == calls > 0

Declares(p) == p \in DOMAIN heap["properties"]

ConfigDeclares(p) ==
    Declares("configParameters") /\ p \in DOMAIN heap["cpProperties"]

InSkeletonConfig(p) ==
    /\ "configParameters" \in DOMAIN skeleton
    /\ p \in DOMAIN skeleton["configParameters"]

Overrides == IF icall.parameters.isNone THEN EmptyDict ELSE icall.parameters.dict

\* C7: model_input works on a defensive copy: whether it returns or fails,
\* every dict of the caller's model['execution']['input_schema'] is as it
\* was before the call (definitions kept, no property definition replaced
\* by a placeholder string schema).
C7_ModelUnchanged == [][heap' = heap]_vars

\* the part of C7 the code does meet: the top-level dict, 'definitions'
\* included, is untouched
C7_TopLevelUnchanged == [][heap'["schema"] = heap["schema"]]_vars

\* C8: a field's final value follows override > injected data > default >
\* fake: when the override parameters hold fieldObservations or
\* fieldObservationQuantifications and data for it is injected too, the
\* returned document holds the override at that field.
C8_OverrideBeatsInjected ==
    (Called /\ ires.ok)
    => /\ ("fieldObservations" \in DOMAIN Overrides
           /\ icall.field_observations # None
           /\ InSkeletonConfig("fieldObservations"))
          => ires.params["configParameters"]["fieldObservations"]
                = Overrides["fieldObservations"]
       /\ ("fieldObservationQuantifications" \in DOMAIN Overrides
           /\ icall.field_observation_quantifications # None
           /\ InSkeletonConfig("fieldObservationQuantifications"))
          => ires.params["configParameters"]["fieldObservationQuantifications"]
                = Overrides["fieldObservationQuantifications"]

\* C9: for each key of the skeleton's configParameters that is not an
\* externally supplied property, the returned document holds the override
\* if the caller gave one, else the schema default if one is declared, else
\* the generated value; an override key the skeleton lacks is not added.
C9_ConfigParameters ==
    (Called /\ ires.ok /\ "configParameters" \in DOMAIN skeleton)
    => LET out == ires.params["configParameters"]
           gen == skeleton["configParameters"]
           external == {fieldobs[1], fieldobs[2]}
       IN  /\ \A p \in (DOMAIN gen) \ external :
                /\ p \in DOMAIN out
                /\ out[p] =
                     IF p \in DOMAIN Overrides THEN Overrides[p]
                     ELSE IF "default" \in DOMAIN OriginalSchema(p)
                     THEN OriginalSchema(p)["default"]
                     ELSE gen[p]
           /\ \A p \in (DOMAIN Overrides) \ external :
                p \notin DOMAIN gen => p \notin DOMAIN out

C9_Witness ==
    /\ Called /\ ires.ok
    /\ InSkeletonConfig("timeZone")
    /\ "default" \in DOMAIN OriginalSchema("timeZone")
    /\ Overrides = [timeZone |-> Str("UTC"), fieldObservations |-> Doc("override"),
                    cropCode |-> Str("DAUCS")]
    /\ ires.params["configParameters"]["timeZone"] = Str("UTC")
    /\ ires.params["configParameters"]["timeStart"] = Fake("timeStart")
    /\ "cropCode" \notin DOMAIN ires.params["configParameters"]

\* C10: whenever the schema declares weatherData, required or not,
\* model_input called without weather data fails with an error naming
\* weatherData and returns no document (stated here for calls that pass
\* both field-observation documents, on schemas whose skeleton has
\* configParameters and models whose weather_parameters is not empty).
C10_MissingWeatherFails ==
    (/\ Called
     /\ Declares("weatherData")
     /\ icall.weather_data = None
     /\ "configParameters" \in DOMAIN skeleton
     /\ icall.field_observations # None
     /\ icall.field_observation_quantifications # None
     /\ (model.weather_parameters.isNone \/ Len(model.weather_parameters.list) > 0))
    => /\ ~ires.ok
       /\ ires.exc = "ValueError"
       /\ ires.msg = model.id \o " requires WeatherData as input"

\* the part of C10 the code does meet: weatherData in the skeleton
C10_FailsWhenGenerated ==
    (/\ Called
     /\ "weatherData" \in DOMAIN skeleton
     /\ icall.weather_data = None
     /\ (model.weather_parameters.isNone \/ Len(model.weather_parameters.list) > 0))
    => /\ ~ires.ok
       /\ ires.exc = "ValueError"
       /\ ires.msg = model.id \o " requires WeatherData as input"

(***************************************************************************)
(* Properties of the injection of data                                     *)
(***************************************************************************)

DeclaresWeatherParameters ==
    ~model.weather_parameters.isNone /\ Len(model.weather_parameters.list) > 0

\* the supplied weather data has every declared code and the interval of
\* the first declared weather parameter
Compatible ==
    /\ \A i \in 1..Len(model.weather_parameters.list) :
          model.weather_parameters.list[i].parameter_code
              \in icall.weather_data.weatherParameters
    /\ model.weather_parameters.list[1].interval = icall.weather_data.interval

\* C11: for a model that declares weather_parameters and a call that
\* supplies weather data, on both injection paths (weatherData in the
\* skeleton, or declared by the schema and absent from the skeleton): a
\* returned document holds the supplied data at weatherData and the data
\* has every declared parameter_code and the interval of the first
\* declared weather parameter; if a code is missing or the interval
\* differs the call fails with the assertion's error and returns no
\* document.
C11_WeatherCompatibility ==
    (/\ Called
     /\ DeclaresWeatherParameters
     /\ icall.weather_data # None
     /\ Declares("configParameters")
     /\ Declares("weatherData"))
    => /\ ires.ok => /\ Compatible
                     /\ "weatherData" \in DOMAIN ires.params
                     /\ ires.params["weatherData"] = icall.weather_data
       /\ ~Compatible
            => /\ ~ires.ok
               /\ ires.exc = "AssertionError"
               /\ ires.msg \in
                     {"WeatherData parameter are missing",
                      "weatherdata interval is not fullfilling model requirements"}

\* the interval differs and weatherData is not in the skeleton
C11_Witness ==
    /\ Called
    /\ DeclaresWeatherParameters
    /\ Declares("weatherData")
    /\ "configParameters" \in DOMAIN skeleton
    /\ "weatherData" \notin DOMAIN skeleton
    /\ icall.weather_data = WeatherData({1002, 3002}, 7200)
    /\ ~ires.ok
    /\ ires.msg = "weatherdata interval is not fullfilling model requirements"

Supplied(p) ==
    IF p = fieldobs[1] THEN icall.field_observations
    ELSE icall.field_observation_quantifications

\* the weather step has nothing to reject: the schema declares no
\* weatherData, or compatible data is supplied
WeatherSettled ==
    /\ model.weather_parameters.isNone \/ Len(model.weather_parameters.list) > 0
    /\ \/ ~Declares("weatherData")
       \/ icall.weather_data # None /\ DeclaresWeatherParameters /\ Compatible

\* the properties of fieldobs that come before p in the loop are settled
EarlierSettled(p) ==
    p = fieldobs[2]
        => (InSkeletonConfig(fieldobs[1]) => Supplied(fieldobs[1]) # None)

Sentinel(p) == Str("{" \o (IF p = "weatherData" THEN "WEATHER_DATA" ELSE p) \o "}")

\* a value is supplied for every externally supplied property the schema
\* references
AllSupplied ==
    /\ Declares("weatherData") => icall.weather_data # None
    /\ \A i \in 1..2 : ConfigDeclares(fieldobs[i]) => Supplied(fieldobs[i]) # None

\* C13: on a returned document, when a value was supplied for every
\* externally supplied property the schema references, no sentinel string
\* is left at weatherData, configParameters.fieldObservations or
\* configParameters.fieldObservationQuantifications, and each supplied
\* value of a referenced property is at its path verbatim.
C13_NoSentinelLeft ==
    (Called /\ ires.ok /\ AllSupplied)
    => /\ "weatherData" \in DOMAIN ires.params
            => ires.params["weatherData"] # Sentinel("weatherData")
       /\ Declares("weatherData")
            => /\ "weatherData" \in DOMAIN ires.params
               /\ ires.params["weatherData"] = icall.weather_data
       /\ \A i \in 1..2 :
            LET p == fieldobs[i]
                cp == ires.params["configParameters"]
            IN  /\ p \in DOMAIN cp => cp[p] # Sentinel(p)
                /\ ConfigDeclares(p) => p \in DOMAIN cp /\ cp[p] = Supplied(p)

\* the generator emitted all three sentinels and the three supplied
\* values replaced them
C13_Witness ==
    /\ Called /\ ires.ok /\ AllSupplied
    /\ "weatherData" \in DOMAIN skeleton
    /\ skeleton["weatherData"] = Sentinel("weatherData")
    /\ \A i \in 1..2 :
          /\ InSkeletonConfig(fieldobs[i])
          /\ skeleton["configParameters"][fieldobs[i]] = Sentinel(fieldobs[i])
    /\ ires.params["weatherData"] = WeatherData({1002, 3002, 2001}, 3600)
    /\ ires.params["configParameters"]["fieldObservations"] = Doc("observations")
    /\ ires.params["configParameters"]["fieldObservationQuantifications"]
          = Doc("quantifications")

(***************************************************************************)
(* Properties of run_model                                                 *)
(***************************************************************************)

PostsMade == {i \in DOMAIN log : log[i].op = "http_post"}

Compositions == {i \in DOMAIN log : log[i].op = "model_input"}

FailedCompositions == {i \in Compositions : ~log[i].out.ok}

\* C14: each run_model call makes one POST to the model's endpoint, or
\* none when model_input fails, and none is repeated; a POST of a composed
\* document comes right after the composition that returned it and sends
\* that document; with a ready-made model_input no composition runs, the
\* caller's schema is as fetched and the ready-made document is the one
\* sent; run_model returns the answer of its POST as it came, or fails
\* with model_input's error.
C14_OnePostPerRun ==
    /\ Cardinality(PostsMade) + Cardinality(FailedCompositions) = runs
    /\ \A i \in PostsMade :
          /\ log[i].endpoint = model.endpoint
          /\ IF rmcall = None
             THEN /\ i > 1
                  /\ log[i - 1].op = "model_input"
                  /\ log[i - 1].out.ok
                  /\ log[i].data = dumps(log[i - 1].out.params)
             ELSE log[i].data = dumps(rmcall)
    /\ \A i \in FailedCompositions : i = Len(log) \/ log[i + 1].op = "model_input"
    /\ IF rmcall = None
       THEN Cardinality(Compositions) = runs /\ calls = runs
       ELSE /\ Compositions = {}
            /\ calls = 0
            /\ skeleton = EmptyDict
            /\ ires = Raise("none", "")
            /\ heap \in SchemaHeaps
    /\ runs > 0
         => IF log[Len(log)].op = "http_post"
            THEN rmres.ok /\ rmres.value = log[Len(log)].response
            ELSE /\ ~rmres.ok
                 /\ rmres.exc = log[Len(log)].out.exc
                 /\ rmres.msg = log[Len(log)].out.msg

\* two calls that compose: the first fails and posts nothing, the second
\* posts once and returns the error report the remote end answered
C14_Witness ==
    /\ runs = 2
    /\ rmcall = None
    /\ Len(log) = 3
    /\ log[1].op = "model_input" /\ ~log[1].out.ok
    /\ log[2].op = "model_input" /\ log[2].out.ok
    /\ log[3].op = "http_post"
    /\ log[3].data = dumps(ires.params)
    /\ "error" \in DOMAIN log[3].response
    /\ rmres.ok /\ rmres.value = log[3].response

(***************************************************************************)
(* Properties of the source-specific options                               *)
(***************************************************************************)

\* C15: a parameter set returned by the observation resolver has the key
\* ignoreErrors exactly when the source id is 'fi.fmi.observation.station';
\* for that source the value is the caller's ignoreErrors option when one
\* is given and true otherwise; for any other source a given option is
\* not passed on.
C15_IgnoreErrors ==
    (rcall.fn = "observation" /\ rres.ok)
    => /\ Has(rres.params, {"ignoreErrors"})
            <=> rcall.source.id = "fi.fmi.observation.station"
       /\ rcall.source.id = "fi.fmi.observation.station"
            => rres.params["ignoreErrors"]
                 = IF "ignoreErrors" \in DOMAIN rcall.kw
                   THEN rcall.kw["ignoreErrors"] ELSE TRUE

\* the caller turns the option off for the one source that takes it
C15_Witness ==
    /\ rcall.fn = "observation" /\ rres.ok
    /\ rcall.source.id = "fi.fmi.observation.station"
    /\ "ignoreErrors" \in DOMAIN rcall.kw /\ rcall.kw["ignoreErrors"] = FALSE
    /\ rres.params["ignoreErrors"] = FALSE

(***************************************************************************)
(* Properties of weather data the schema does not ask for                  *)
(***************************************************************************)

\* the errors of the weather step
WeatherErrors ==
    {[exc |-> "ValueError", msg |-> model.id \o " requires WeatherData as input"],
     [exc |-> "AssertionError", msg |-> "WeatherData parameter are missing"],
     [exc |-> "AssertionError",
      msg |-> "weatherdata interval is not fullfilling model requirements"]}

\* nothing but the weather step can fail: weather_parameters is not an
\* empty list, the skeleton has configParameters, and a value is supplied
\* for each field-observation property of the skeleton
OtherStepsPass ==
    /\ model.weather_parameters.isNone \/ Len(model.weather_parameters.list) > 0
    /\ "configParameters" \in DOMAIN skeleton
    /\ \A i \in 1..2 : InSkeletonConfig(fieldobs[i]) => Supplied(fieldobs[i]) # None

\* C16: weather data supplied for a schema that declares no weatherData is
\* passed over: no error of the weather step is raised, whatever the data,
\* the call returns when the other steps pass, and the document has no
\* weatherData key. When the schema declares weatherData and the skeleton
\* lacks it, the data goes through the checks of the skeleton path: a
\* returned document holds it at weatherData, and data that lacks a
\* declared code or has another interval ends the call with the
\* assertion's error.
C16_UndeclaredWeatherIgnored ==
    (Called /\ icall.weather_data # None)
    => /\ ~Declares("weatherData")
            => /\ [exc |-> ires.exc, msg |-> ires.msg] \notin WeatherErrors
               /\ OtherStepsPass => ires.ok
               /\ ires.ok => "weatherData" \notin DOMAIN ires.params
       /\ (Declares("weatherData") /\ "weatherData" \notin DOMAIN skeleton)
            => /\ ires.ok => /\ "weatherData" \in DOMAIN ires.params
                             /\ ires.params["weatherData"] = icall.weather_data
               /\ (OtherStepsPass /\ DeclaresWeatherParameters)
                    => IF Compatible THEN ires.ok
                       ELSE ~ires.ok /\ ires.exc = "AssertionError"

\* data of another interval, supplied for a schema without weatherData
C16_Witness ==
    /\ Called
    /\ icall.weather_data = WeatherData({1002, 3002}, 7200)
    /\ ~Declares("weatherData")
    /\ DeclaresWeatherParameters
    /\ ires.ok
    /\ "weatherData" \notin DOMAIN ires.params

(***************************************************************************)
(* Properties of models and schemas with missing parts                     *)
(***************************************************************************)

\* C17: the compatibility requirement binds only models that declare
\* weather_parameters: when weather_parameters is null and the schema
\* declares weatherData, a call that supplies weather data (any codes, any
\* integer interval) returns a document that holds the data at weatherData
\* (stated here for calls whose other steps pass).
C17_NullWeatherParameters ==
    (/\ Called
     /\ model.weather_parameters.isNone
     /\ Declares("weatherData")
     /\ icall.weather_data # None
     /\ OtherStepsPass)
    => /\ ires.ok
       /\ "weatherData" \in DOMAIN ires.params
       /\ ires.params["weatherData"] = icall.weather_data

\* the part of C17 the code does meet: no declared code is asked of the data
C17_NoCodeRequired ==
    (Called /\ model.weather_parameters.isNone)
    => ires.msg # "WeatherData parameter are missing"

\* the declared input errors: a missing required input, incompatible data
DeclaredErrors == {"ValueError", "AssertionError"}

\* C18: on a schema that does not declare configParameters, or declares it
\* as optional so that the skeleton has no configParameters key,
\* model_input returns a document or fails with one of its declared input
\* errors, never with a key-lookup failure (stated here for models whose
\* weather_parameters is not an empty list).
C18_NoKeyLookupFailure ==
    (/\ Called
     /\ model.weather_parameters.isNone \/ Len(model.weather_parameters.list) > 0
     /\ ~Declares("configParameters") \/ "configParameters" \notin DOMAIN skeleton)
    => ires.ok \/ ires.exc \in DeclaredErrors

\* the part of C18 the code does meet: a skeleton with configParameters
C18_WithConfigParameters ==
    (Called /\ "configParameters" \in DOMAIN skeleton) => ires.exc # "KeyError"

====
